---- MODULE Spec2Model ----
(***************************************************************************)
(* State-machine model of src/main.py: the ContentPoster class (session   *)
(* bootstrap, login, fetch_content, post_content_to_platform, run) and    *)
(* the main() driver (single run or interval loop).                       *)
(*                                                                         *)
(* The program is single-threaded, so one program counter `pc` walks the  *)
(* code.  Everything outside the program (environment, browser, forum,    *)
(* generation endpoint) is a nondeterministic input chosen with \E.       *)
(***************************************************************************)
EXTENDS Integers, Sequences, FiniteSets, TLC

\* ------------------------------------------------------------------ bounds
\* Cap of the run()/sleep counters (they saturate, the loop itself goes on).
MaxRuns == 2
\* Cookie values the forum may hand out are 1..MaxCookieVal.
MaxCookieVal == 2
\* Largest run of whitespace put around a response body.
MaxPad == 1
\* Longest POSTING_INTERVAL string.
MaxIntervalLen == 2

\* ------------------------------------------------------- program constants
\* time.sleep(posting_interval * 60 * 60)
SecondsPerHour == 3600

\* -------------------------------------------------------------- environment
required_vars ==
    <<"GENERATION_ENDPOINT", "PLATFORM_POST_URL", "LOGIN_URL", "EMAIL", "PASSWORD">>

Range(s) == {s[i] : i \in 1..Len(s)}

RequiredSet == Range(required_vars)

\* An environment value: unset (os.getenv gives None) or a string, kept as a
\* sequence of characters.
Unset == [set |-> FALSE, val |-> <<>>]
Str(s) == [set |-> TRUE, val |-> s]

\* Python truthiness of what os.getenv returns: None and "" are falsy.
Truthy(v) == v.set /\ v.val # <<>>

RequiredValues == {Unset, Str(<<>>), Str(<<"v">>)}

IntervalChars == {"-", "6"}

RECURSIVE SeqsUpTo(_, _)
SeqsUpTo(S, n) ==
    IF n = 0 THEN {<<>>}
    ELSE LET shorter == SeqsUpTo(S, n - 1)
         IN  shorter \cup {Append(s, c) : s \in shorter, c \in S}

IntervalValues == {Unset} \cup {Str(s) : s \in SeqsUpTo(IntervalChars, MaxIntervalLen)}

\* int(str): an optional sign followed by at least one decimal digit;
\* anything else raises ValueError.
Digits == {"6"}
DigitValue(c) == 6

IntBody(s) == IF s # <<>> /\ s[1] = "-" THEN Tail(s) ELSE s

IsIntLiteral(s) ==
    /\ IntBody(s) # <<>>
    /\ \A i \in 1..Len(IntBody(s)) : IntBody(s)[i] \in Digits

RECURSIVE DigitsValue(_)
DigitsValue(s) ==
    IF s = <<>> THEN 0
    ELSE 10 * DigitsValue(SubSeq(s, 1, Len(s) - 1)) + DigitValue(s[Len(s)])

IntOf(s) == IF s[1] = "-" THEN 0 - DigitsValue(IntBody(s)) ELSE DigitsValue(s)

\* ------------------------------------------------------------------ cookies
\* A cookie as login() copies it: name, value and domain.
CookieNames == {"_t"}
CookieDomains == {"forum"}
Cookies == [name : CookieNames, value : 1..MaxCookieVal, domain : CookieDomains]

\* What driver.get_cookies() can return: at most one cookie per name and domain.
BrowserCookieSets ==
    {S \in SUBSET Cookies :
        \A c, d \in S : (c.name = d.name /\ c.domain = d.domain) => c = d}

\* RequestsCookieJar.set(name, value, domain=domain): the jar holds one cookie
\* per name and domain, a second set() replaces the first.
JarSet(jar, c) ==
    {d \in jar : ~(d.name = c.name /\ d.domain = c.domain)} \cup {c}

\* for cookie in cookies: self.session.cookies.set(...)
RECURSIVE CopyCookies(_, _)
CopyCookies(jar, cookies) ==
    IF cookies = {} THEN jar
    ELSE LET c == CHOOSE x \in cookies : TRUE
         IN  CopyCookies(JarSet(jar, c), cookies \ {c})

\* `not self.session.cookies`: a cookie jar is falsy when it holds no cookie.
JarIsEmpty_Never(jar) == FALSE

JarIsEmpty(jar) == Cardinality(jar) = 0

\* --------------------------------------------------------------------- text
\* Response text is a sequence of characters: " " is whitespace, "{" "}" ","
\* are JSON punctuation, "7" is a JSON number, and "t1" "t2" "b1" "b2" each
\* stand for one object member: "topic": <title 1|2>, "forumPost": <body 1|2>.
Whitespace == {" "}
Members == {"t1", "t2", "b1", "b2"}

MemberKey(m) == IF m \in {"t1", "t2"} THEN "topic" ELSE "forumPost"
MemberValue(m) == IF m \in {"t1", "b1"} THEN 1 ELSE 2

\* str.strip(): drop leading and trailing whitespace.
RECURSIVE LStrip(_)
LStrip(s) == IF s # <<>> /\ s[1] \in Whitespace THEN LStrip(Tail(s)) ELSE s

RECURSIVE RStrip(_)
RStrip(s) ==
    IF s # <<>> /\ s[Len(s)] \in Whitespace
    THEN RStrip(SubSeq(s, 1, Len(s) - 1))
    ELSE s

Strip(s) == RStrip(LStrip(s))

\* Optional[str]
None == [present |-> FALSE, text |-> <<>>]
Text(s) == [present |-> TRUE, text |-> s]

\* `not content` for an Optional[str]: None and "" are falsy.
Falsy(c) == ~c.present \/ c.text = <<>>

\* json.loads(content): whitespace between tokens is skipped; the document is
\* a number or an object {member, member, ...}; a repeated key keeps its last
\* value; anything else raises JSONDecodeError.
IsNotWhitespace(c) == c \notin Whitespace
Tokens(s) == SelectSeq(s, IsNotWhitespace)

Inner(toks) == SubSeq(toks, 2, Len(toks) - 1)

IsMemberList(inner) ==
    \/ inner = <<>>
    \/ /\ Len(inner) % 2 = 1
       /\ \A i \in 1..Len(inner) :
            IF i % 2 = 1 THEN inner[i] \in Members ELSE inner[i] = ","

IsObject(toks) ==
    /\ Len(toks) >= 2
    /\ toks[1] = "{"
    /\ toks[Len(toks)] = "}"
    /\ IsMemberList(Inner(toks))

LastIndexOfKey(inner, k) ==
    CHOOSE i \in 1..Len(inner) :
        /\ inner[i] \in Members
        /\ MemberKey(inner[i]) = k
        /\ \A j \in (i + 1)..Len(inner) :
             ~(inner[j] \in Members /\ MemberKey(inner[j]) = k)

ObjectOf(inner) ==
    LET keys == {MemberKey(inner[i]) : i \in {j \in 1..Len(inner) : inner[j] \in Members}}
    IN  [k \in keys |-> MemberValue(inner[LastIndexOfKey(inner, k)])]

JsonLoads(s) ==
    LET toks == Tokens(s)
    IN  IF toks = <<"7">> THEN [kind |-> "number", obj |-> <<>>]
        ELSE IF IsObject(toks) THEN [kind |-> "object", obj |-> ObjectOf(Inner(toks))]
        ELSE [kind |-> "JSONDecodeError", obj |-> <<>>]

\* content_data[key]: TypeError on a number, KeyError on a missing key.
HasKey(data, key) == data.kind = "object" /\ key \in DOMAIN data.obj

\* --------------------------------------------------- generation endpoint
\* Documents the endpoint may send, before whitespace is put around them.
Cores ==
    { <<>>,
      <<"{", "t1", ",", "b2", "}">>,
      <<"{", "b1", ",", "t2", "}">>,
      <<"{", " ", "t2", ",", " ", "b2", "}">>,
      <<"{", "t1", ",", "t2", ",", "b1", "}">>,
      <<"{", "t1", "}">>,
      <<"{", "b1", "}">>,
      <<"{", "}">>,
      <<"7">>,
      <<"{", "t1", ",", "b2">> }

Pad(n) == [i \in 1..n |-> " "]

Bodies == {Pad(l) \o core \o Pad(r) : l \in 0..MaxPad, r \in 0..MaxPad, core \in Cores}

Statuses == {200, 204, 299, 300, 304, 399, 400, 404, 499, 500, 599}

\* What self.session.get(endpoint, timeout=2000) can do: return a response,
\* raise a requests.RequestException (connection error, timeout, ...), or
\* raise an exception of another class.
GetOutcomes ==
    [kind : {"response"}, status : Statuses, body : Bodies]
        \cup [kind : {"RequestException", "OtherException"}, status : {0}, body : {<<>>}]

\* response.raise_for_status(): HTTPError for 4xx and 5xx, nothing otherwise.
RaiseForStatus_Only5xx(status) == 500 <= status /\ status < 600

RaiseForStatus(status) == 400 <= status /\ status < 600

\* fetch_content after the GET: what it returns, or that it raises.
FetchResult(out) ==
    IF out.kind = "OtherException" THEN [raised |-> TRUE, value |-> None]
    ELSE IF out.kind = "RequestException" THEN [raised |-> FALSE, value |-> None]
    ELSE IF RaiseForStatus(out.status) THEN [raised |-> FALSE, value |-> None]
    ELSE IF Strip(out.body) = <<>> THEN [raised |-> FALSE, value |-> None]
    ELSE [raised |-> FALSE, value |-> Text(Strip(out.body))]

\* -------------------------------------------------------------------- state
VARIABLES
    env,             \* the process environment after load_dotenv()
    pc,              \* where main() is
    exitCode,        \* -1 while running, then the process's exit status
    errMsg,          \* names listed by the ValueError of _validate_env_vars
    tempDirs,        \* how many directories tempfile.mkdtemp() has made
    temp_dir,        \* the poster's profile directory (0: none yet)
    driver,          \* "none", "up" or "quit"
    driverProfile,   \* --user-data-dir the browser was launched on
    browserCookies,  \* the browser's cookies
    session,         \* "none" or "created" (requests.Session)
    sessionCookies,  \* self.session.cookies
    mode,            \* "none", "single" or "loop"
    posting_interval,\* int(POSTING_INTERVAL) in loop mode
    runCalls,        \* how often main() has called poster.run() (saturates)
    profileRuns,     \* how many of these calls ran on temp_dir (saturates)
    sleeps,          \* how often time.sleep() has returned (saturates)
    lastSleep,       \* seconds of the last sleep (-1: none)
    lastLog,         \* the last cycle's log line
    calls,           \* the methods run() has called in this call, in order
    idx,             \* next step of login / post_content_to_platform
    loginRes,        \* "none", "True", "False"
    loginDone,       \* steps of login() that have completed in this call
    loginFailedAt,   \* step of login() that raised ("none": none)
    jarBefore,       \* sessionCookies when login() was entered
    content,         \* run()'s local `content`
    gets,            \* GETs sent on self.session in this call of run()
    postRes,         \* "none", "True", "False"
    postFailedAt,    \* step of post_content_to_platform that raised
    uiLog,           \* browser actions post_content_to_platform has done
    runRes,          \* what run() returned: "none", "True", "False"
    resp             \* the GET outcome fetch_content is applied to (FetchSpec)

ctorVars == <<errMsg, tempDirs, temp_dir, driver, driverProfile, session>>
mainVars == <<mode, posting_interval, sleeps, lastSleep, lastLog, exitCode>>
countVars == <<runCalls, profileRuns>>
loginVars == <<loginRes, loginDone, loginFailedAt, jarBefore>>
postVars == <<postRes, postFailedAt, uiLog>>
runVars == <<calls, idx, loginVars, content, gets, postVars, runRes>>
vars == <<env, pc, ctorVars, browserCookies, sessionCookies, mainVars, countVars,
          runVars, resp>>

NoResp == [kind |-> "none", status |-> 0, body |-> <<>>]

\* The locals of one call of run() before the call.
RunLocalsCleared ==
    /\ calls' = <<>>
    /\ idx' = 0
    /\ loginRes' = "none"
    /\ loginDone' = {}
    /\ loginFailedAt' = "none"
    /\ jarBefore' = {}
    /\ content' = None
    /\ gets' = 0
    /\ postRes' = "none"
    /\ postFailedAt' = "none"
    /\ uiLog' = <<>>
    /\ runRes' = "none"

Defaults ==
    /\ exitCode = -1
    /\ errMsg = <<>>
    /\ tempDirs = 0
    /\ temp_dir = 0
    /\ driver = "none"
    /\ driverProfile = 0
    /\ browserCookies = {}
    /\ session = "none"
    /\ sessionCookies = {}
    /\ mode = "none"
    /\ posting_interval = 0
    /\ runCalls = 0
    /\ profileRuns = 0
    /\ sleeps = 0
    /\ lastSleep = -1
    /\ lastLog = "none"
    /\ calls = <<>>
    /\ idx = 0
    /\ loginRes = "none"
    /\ loginDone = {}
    /\ loginFailedAt = "none"
    /\ jarBefore = {}
    /\ content = None
    /\ gets = 0
    /\ postRes = "none"
    /\ postFailedAt = "none"
    /\ uiLog = <<>>
    /\ runRes = "none"

Init ==
    /\ \E r \in [RequiredSet -> RequiredValues], p \in IntervalValues :
         env = [k \in RequiredSet \cup {"POSTING_INTERVAL"} |->
                   IF k = "POSTING_INTERVAL" THEN p ELSE r[k]]
    /\ pc = "validate"
    /\ resp = NoResp
    /\ Defaults

Inc(n) == IF n < MaxRuns THEN n + 1 ELSE n

\* ------------------------------------------------------ ContentPoster.__init__
\* missing_vars = [var for var in self.required_vars if not os.getenv(var)]
MissingVars_FirstOnly(e) ==
    LET IsMissing(var) == ~Truthy(e[var])
        all == SelectSeq(required_vars, IsMissing)
    IN  IF all = <<>> THEN <<>> ELSE <<all[1]>>

MissingVars(e) ==
    LET IsMissing(var) == ~Truthy(e[var])
    IN  SelectSeq(required_vars, IsMissing)

\* An exception nobody catches ends the process with status 1.
Crash ==
    /\ pc' = "crashed"
    /\ exitCode' = 1

\* self._validate_env_vars(): raise ValueError naming the missing variables.
Validate ==
    /\ pc = "validate"
    /\ IF MissingVars(env) # <<>>
       THEN /\ errMsg' = MissingVars(env)
            /\ Crash
       ELSE /\ pc' = "mkdtemp"
            /\ UNCHANGED <<errMsg, exitCode>>
    /\ UNCHANGED <<env, tempDirs, temp_dir, driver, driverProfile, session,
                   browserCookies, sessionCookies, mode, posting_interval, sleeps,
                   lastSleep, lastLog, countVars, runVars, resp>>

\* temp_dir = tempfile.mkdtemp(); --user-data-dir={temp_dir}
Mkdtemp ==
    /\ pc = "mkdtemp"
    /\ tempDirs' = tempDirs + 1
    /\ temp_dir' = tempDirs + 1
    /\ profileRuns' = 0
    /\ pc' = "chrome"
    /\ UNCHANGED <<env, errMsg, driver, driverProfile, session, browserCookies,
                   sessionCookies, mainVars, runCalls, runVars, resp>>

\* self.driver = webdriver.Chrome(...): a launch error is logged and re-raised.
LaunchChrome ==
    /\ pc = "chrome"
    /\ \E ok \in BOOLEAN :
         IF ok
         THEN /\ driver' = "up"
              /\ driverProfile' = temp_dir
              /\ browserCookies' = {}
              /\ pc' = "session"
              /\ UNCHANGED exitCode
         ELSE /\ Crash
              /\ UNCHANGED <<driver, driverProfile, browserCookies>>
    /\ UNCHANGED <<env, errMsg, tempDirs, temp_dir, session, sessionCookies, mode,
                   posting_interval, sleeps, lastSleep, lastLog, countVars, runVars,
                   resp>>

\* self.session = requests.Session()
CreateSession ==
    /\ pc = "session"
    /\ session' = "created"
    /\ sessionCookies' = {}
    /\ pc' = "getenv_interval"
    /\ UNCHANGED <<env, errMsg, tempDirs, temp_dir, driver, driverProfile,
                   browserCookies, mainVars, countVars, runVars, resp>>

\* ------------------------------------------------------------------- main()
\* posting_interval = os.getenv('POSTING_INTERVAL'); if posting_interval:
\* posting_interval = int(posting_interval) (ValueError if it is no integer).
ReadInterval ==
    /\ pc = "getenv_interval"
    /\ LET v == env["POSTING_INTERVAL"]
       IN  IF ~Truthy(v)
           THEN /\ mode' = "single"
                /\ pc' = "cycle_start"
                /\ UNCHANGED <<posting_interval, exitCode>>
           ELSE IF IsIntLiteral(v.val)
           THEN /\ mode' = "loop"
                /\ posting_interval' = IntOf(v.val)
                /\ pc' = "cycle_start"
                /\ UNCHANGED exitCode
           ELSE /\ Crash
                /\ UNCHANGED <<mode, posting_interval>>
    /\ UNCHANGED <<env, ctorVars, browserCookies, sessionCookies, sleeps, lastSleep,
                   lastLog, countVars, runVars, resp>>

\* success = poster.run(): run() starts by calling self.login().
RunBegin_NewPoster ==
    /\ pc = "cycle_start"
    /\ runCalls' = Inc(runCalls)
    /\ tempDirs' = tempDirs + 1
    /\ temp_dir' = tempDirs + 1
    /\ driverProfile' = tempDirs + 1
    /\ profileRuns' = 1
    /\ browserCookies' = {}
    /\ sessionCookies' = {}
    /\ calls' = <<"login">>
    /\ idx' = 1
    /\ jarBefore' = {}
    /\ pc' = "login"
    /\ UNCHANGED <<env, errMsg, driver, session, mainVars, loginRes, loginDone,
                   loginFailedAt, content, gets, postVars, runRes, resp>>

RunBegin ==
    /\ pc = "cycle_start"
    /\ runCalls' = Inc(runCalls)
    /\ profileRuns' = Inc(profileRuns)
    /\ calls' = <<"login">>
    /\ idx' = 1
    /\ jarBefore' = sessionCookies
    /\ pc' = "login"
    /\ UNCHANGED <<env, ctorVars, browserCookies, sessionCookies, mainVars, loginRes,
                   loginDone, loginFailedAt, content, gets, postVars, runRes, resp>>

\* ------------------------------------------------------------------ login()
\* The statements of login()'s try block, in order.
LoginSteps_StoreBeforeMarker ==
    <<"get", "wait_username", "wait_password", "wait_button", "send_username",
      "send_password", "click", "get_cookies", "copy_cookies", "wait_marker">>

LoginSteps ==
    <<"get", "wait_username", "wait_password", "wait_button", "send_username",
      "send_password", "click", "wait_marker", "get_cookies", "copy_cookies">>

LoginWaits == {"wait_username", "wait_password", "wait_button", "wait_marker"}

\* Whether a step can raise: every browser call can (TimeoutException,
\* WebDriverException); the copy into the cookie jar cannot.
StepCanFail(step) == step # "copy_cookies"

\* except Exception as e: ... return False
LoginCatches(exc) == TRUE

LoginStep ==
    /\ pc = "login"
    /\ LET step == LoginSteps[idx]
       IN  \E ok \in IF StepCanFail(step) THEN BOOLEAN ELSE {TRUE} :
             IF ok
             THEN /\ browserCookies' \in
                        IF step = "click" THEN BrowserCookieSets ELSE {browserCookies}
                  /\ sessionCookies' =
                        IF step = "copy_cookies"
                        THEN CopyCookies(sessionCookies, browserCookies)
                        ELSE sessionCookies
                  /\ IF idx = Len(LoginSteps)
                     THEN /\ loginRes' = "True"
                          /\ pc' = "run_after_login"
                          /\ idx' = 0
                     ELSE /\ idx' = idx + 1
                          /\ UNCHANGED <<loginRes, pc>>
                  /\ loginDone' = loginDone \cup {step}
                  /\ UNCHANGED loginFailedAt
             ELSE /\ loginFailedAt' = step
                  /\ idx' = 0
                  /\ UNCHANGED loginDone
                  /\ IF LoginCatches("TimeoutException")
                     THEN /\ loginRes' = "False"
                          /\ pc' = "run_after_login"
                     ELSE /\ pc' = "run_raised"
                          /\ UNCHANGED loginRes
                  /\ UNCHANGED <<browserCookies, sessionCookies>>
    /\ UNCHANGED <<env, ctorVars, mainVars, countVars, calls, jarBefore, content, gets,
                   postVars, runRes, resp>>

\* ---------------------------------------------------------------------- run()
\* if not self.login(): return False
RunStopsAfterLogin_Never(res) == FALSE

RunStopsAfterLogin(res) == res # "True"

RunAfterLogin ==
    /\ pc = "run_after_login"
    /\ IF RunStopsAfterLogin(loginRes)
       THEN /\ runRes' = "False"
            /\ pc' = "run_return"
            /\ UNCHANGED calls
       ELSE /\ calls' = Append(calls, "fetch_content")
            /\ pc' = "fetch"
            /\ UNCHANGED runRes
    /\ UNCHANGED <<env, ctorVars, browserCookies, sessionCookies, mainVars, countVars,
                   idx, loginVars, content, gets, postVars, resp>>

\* content = self.fetch_content(), the GET doing `out`: one GET, then
\* FetchResult; an exception fetch_content does not catch leaves run().
FetchContentOn(out) ==
    /\ pc = "fetch"
    /\ gets' = gets + 1
    /\ content' = FetchResult(out).value
    /\ pc' = IF FetchResult(out).raised THEN "run_raised" ELSE "run_after_fetch"
    /\ UNCHANGED <<env, ctorVars, browserCookies, sessionCookies, mainVars, countVars,
                   calls, idx, loginVars, postVars, runRes, resp>>

FetchContent == \E out \in GetOutcomes : FetchContentOn(out)

\* if not content: return False
RunAfterFetch ==
    /\ pc = "run_after_fetch"
    /\ IF Falsy(content)
       THEN /\ runRes' = "False"
            /\ pc' = "run_return"
            /\ UNCHANGED calls
       ELSE /\ calls' = Append(calls, "post_content_to_platform")
            /\ pc' = "post_check"
            /\ UNCHANGED runRes
    /\ UNCHANGED <<env, ctorVars, browserCookies, sessionCookies, mainVars, countVars,
                   idx, loginVars, content, gets, postVars, resp>>

\* ------------------------------------------------- post_content_to_platform()
\* if not self.session.cookies: log the error and return False.
PostCookieCheck ==
    /\ pc = "post_check"
    /\ IF JarIsEmpty(sessionCookies)
       THEN /\ postRes' = "False"
            /\ pc' = "run_after_post"
            /\ UNCHANGED idx
       ELSE /\ idx' = 1
            /\ pc' = "post"
            /\ UNCHANGED postRes
    /\ UNCHANGED <<env, ctorVars, browserCookies, sessionCookies, mainVars, countVars,
                   calls, loginVars, content, gets, postFailedAt, uiLog, runRes, resp>>

\* The statements of the try block, in order.  A wait and the click or the
\* clear()/send_keys() that follows it are one step; wait_title and wait_body
\* stand alone; json_loads is json.loads(content) and the two log lines that
\* read content_data['topic'] and content_data['forumPost'].
PostSteps_SubmitBeforeBody ==
    <<"get", "click_new_topic", "wait_title", "json_loads", "fill_title",
      "open_category", "select_category", "wait_body", "click_submit", "fill_body">>

PostSteps ==
    <<"get", "click_new_topic", "wait_title", "json_loads", "fill_title",
      "open_category", "select_category", "wait_body", "fill_body", "click_submit">>

\* The steps that act on the browser (the others only wait or compute).
UiSteps ==
    {"get", "click_new_topic", "fill_title", "open_category", "select_category",
     "fill_body", "click_submit"}

\* What json.loads and the two key lookups raise on `c`, "none" if nothing.
JsonStepException(c) ==
    LET data == JsonLoads(c.text)
    IN  IF data.kind = "JSONDecodeError" THEN "JSONDecodeError"
        ELSE IF data.kind = "number" THEN "TypeError"
        ELSE IF ~(HasKey(data, "topic") /\ HasKey(data, "forumPost")) THEN "KeyError"
        ELSE "none"

PostStepExceptions(step, c) ==
    IF step = "json_loads" THEN {JsonStepException(c)} ELSE {"none", "TimeoutException"}

\* The text a step types: content_data['topic'] or content_data['forumPost'].
StepText(step, c) ==
    IF step = "fill_title" THEN JsonLoads(c.text).obj["topic"]
    ELSE IF step = "fill_body" THEN JsonLoads(c.text).obj["forumPost"]
    ELSE 0

\* except Exception as e: ... return False
PostCatches_OnlyTimeout(exc) == exc = "TimeoutException"

PostCatches(exc) == TRUE

PostStep ==
    /\ pc = "post"
    /\ LET step == PostSteps[idx]
       IN  \E exc \in PostStepExceptions(step, content) :
             IF exc = "none"
             THEN /\ uiLog' = IF step \in UiSteps
                              THEN Append(uiLog, <<step, StepText(step, content)>>)
                              ELSE uiLog
                  /\ IF idx = Len(PostSteps)
                     THEN /\ postRes' = "True"
                          /\ pc' = "run_after_post"
                          /\ idx' = 0
                     ELSE /\ idx' = idx + 1
                          /\ UNCHANGED <<postRes, pc>>
                  /\ UNCHANGED postFailedAt
             ELSE /\ postFailedAt' = step
                  /\ idx' = 0
                  /\ IF PostCatches(exc)
                     THEN /\ postRes' = "False"
                          /\ pc' = "run_after_post"
                     ELSE /\ pc' = "run_raised"
                          /\ UNCHANGED postRes
                  /\ UNCHANGED uiLog
    /\ UNCHANGED <<env, ctorVars, browserCookies, sessionCookies, mainVars, countVars,
                   calls, loginVars, content, gets, runRes, resp>>

\* if not self.post_content_to_platform(content): return False / return True
RunAfterPost ==
    /\ pc = "run_after_post"
    /\ runRes' = IF postRes # "True" THEN "False" ELSE "True"
    /\ pc' = "run_return"
    /\ UNCHANGED <<env, ctorVars, browserCookies, sessionCookies, mainVars, countVars,
                   calls, idx, loginVars, content, gets, postVars, resp>>

\* ------------------------------------------------------- main(), after run()
\* Where main() goes after a cycle: the loop sleeps, the single run exits.
AfterCycle == IF mode = "loop" THEN "sleep" ELSE "exit"

\* if success: logger.info(...) else: logger.error(...)
MainAfterRun ==
    /\ pc = "run_return"
    /\ lastLog' = IF runRes = "True" THEN "completed" ELSE "failed"
    /\ pc' = AfterCycle
    /\ RunLocalsCleared
    /\ UNCHANGED <<env, ctorVars, browserCookies, sessionCookies, mode,
                   posting_interval, sleeps, lastSleep, exitCode, countVars, resp>>

\* except Exception as e: logger.error(f"Unexpected error: {e}")
MainExcept_Propagates ==
    /\ pc = "run_raised"
    /\ Crash
    /\ UNCHANGED <<env, ctorVars, browserCookies, sessionCookies, mode,
                   posting_interval, sleeps, lastSleep, lastLog, countVars, runVars,
                   resp>>

MainExcept ==
    /\ pc = "run_raised"
    /\ lastLog' = "unexpected"
    /\ pc' = AfterCycle
    /\ RunLocalsCleared
    /\ UNCHANGED <<env, ctorVars, browserCookies, sessionCookies, mode,
                   posting_interval, sleeps, lastSleep, exitCode, countVars, resp>>

\* time.sleep(posting_interval * 60 * 60): ValueError for a negative length.
Sleep ==
    /\ pc = "sleep"
    /\ LET seconds == posting_interval * SecondsPerHour
       IN  IF seconds < 0
           THEN /\ Crash
                /\ UNCHANGED <<sleeps, lastSleep>>
           ELSE /\ sleeps' = Inc(sleeps)
                /\ lastSleep' = seconds
                /\ pc' = "cycle_start"
                /\ UNCHANGED exitCode
    /\ UNCHANGED <<env, ctorVars, browserCookies, sessionCookies, mode,
                   posting_interval, lastLog, countVars, runVars, resp>>

\* exit(0); the poster is dropped and __del__ quits the browser.
ExitStatus_FromLog == IF lastLog = "completed" THEN 0 ELSE 1

ExitStatus == 0

Exit ==
    /\ pc = "exit"
    /\ exitCode' = ExitStatus
    /\ driver' = "quit"
    /\ pc' = "exited"
    /\ UNCHANGED <<env, errMsg, tempDirs, temp_dir, driverProfile, session,
                   browserCookies, sessionCookies, mode, posting_interval, sleeps,
                   lastSleep, lastLog, countVars, runVars, resp>>

\* ------------------------------------------------------------ specifications
Next ==
    \/ Validate
    \/ Mkdtemp
    \/ LaunchChrome
    \/ CreateSession
    \/ ReadInterval
    \/ RunBegin
    \/ LoginStep
    \/ RunAfterLogin
    \/ FetchContent
    \/ RunAfterFetch
    \/ PostCookieCheck
    \/ PostStep
    \/ RunAfterPost
    \/ MainAfterRun
    \/ MainExcept
    \/ Sleep
    \/ Exit

Spec == Init /\ [][Next]_vars

\* Every statement of the program ends (each wait has a timeout, the sleep is
\* finite), so a step that can be taken is taken.
LiveSpec == Spec /\ WF_vars(Next)

\* fetch_content as a function of what the GET did: the program stands at the
\* call of fetch_content in the first run() of a single-run process, login()
\* having succeeded, and `resp` is what the GET is going to do.
FetchInit ==
    /\ env = [k \in RequiredSet \cup {"POSTING_INTERVAL"} |->
                 IF k = "POSTING_INTERVAL" THEN Unset ELSE Str(<<"v">>)]
    /\ pc = "fetch"
    /\ resp \in GetOutcomes
    /\ exitCode = -1
    /\ errMsg = <<>>
    /\ tempDirs = 1
    /\ temp_dir = 1
    /\ driver = "up"
    /\ driverProfile = 1
    /\ browserCookies \in BrowserCookieSets
    /\ session = "created"
    /\ sessionCookies = browserCookies
    /\ mode = "single"
    /\ posting_interval = 0
    /\ runCalls = 1
    /\ profileRuns = 1
    /\ sleeps = 0
    /\ lastSleep = -1
    /\ lastLog = "none"
    /\ calls = <<"login", "fetch_content">>
    /\ idx = 0
    /\ loginRes = "True"
    /\ loginDone = Range(LoginSteps)
    /\ loginFailedAt = "none"
    /\ jarBefore = {}
    /\ content = None
    /\ gets = 0
    /\ postRes = "none"
    /\ postFailedAt = "none"
    /\ uiLog = <<>>
    /\ runRes = "none"

FetchCall == FetchContentOn(resp)

FetchNext == FetchCall

FetchSpec == FetchInit /\ [][FetchNext]_vars

\* ------------------------------------------------------------------- claims
IsPrefixOf(s, t) == Len(s) <= Len(t) /\ \A i \in 1..Len(s) : s[i] = t[i]

\* run() has just been invoked and stands at the first statement of login().
RunJustInvoked == pc = "login" /\ idx = 1

\* C1: every call of run() calls login, fetch_content and
\* post_content_to_platform in this order, each at most once; fetch_content
\* only after login returned True in the same call, post_content_to_platform
\* only after fetch_content returned non-empty content in the same call; no
\* GET is sent before a successful login of the same call; and run() returns
\* True exactly when all three succeeded.
C1_RunOrder ==
    /\ IsPrefixOf(calls, <<"login", "fetch_content", "post_content_to_platform">>)
    /\ "fetch_content" \in Range(calls) => loginRes = "True"
    /\ "post_content_to_platform" \in Range(calls) =>
          /\ loginRes = "True"
          /\ gets = 1
          /\ ~Falsy(content)
    /\ gets <= 1
    /\ gets > 0 => loginRes = "True" /\ "fetch_content" \in Range(calls)
    /\ postRes # "none" => "post_content_to_platform" \in Range(calls)
    /\ pc = "run_return" =>
          /\ runRes \in {"True", "False"}
          /\ runRes = "True" <=>
                (loginRes = "True" /\ ~Falsy(content) /\ postRes = "True")

C1_Witness ==
    /\ pc = "run_return"
    /\ runRes = "True"
    /\ runCalls = 2
    /\ calls = <<"login", "fetch_content", "post_content_to_platform">>

\* main() is in the interval loop, POSTING_INTERVAL being a number of hours
\* that int() reads and time.sleep() accepts.
C2_InLoop == mode = "loop" /\ posting_interval >= 0

\* C2: in the interval loop no outcome of a cycle ends the driver: it never
\* exits or dies, after a cycle that returned or raised it sleeps
\* posting_interval * 3600 seconds and starts another cycle, and run() is
\* invoked again and again.
C2_LoopNeverStops ==
    /\ [](C2_InLoop => pc \notin {"exit", "exited", "crashed"})
    /\ [](C2_InLoop /\ sleeps > 0 => lastSleep = posting_interval * SecondsPerHour)
    /\ [](C2_InLoop /\ pc \in {"run_return", "run_raised"} =>
            <>(pc = "cycle_start" /\ sleeps > 0))
    /\ [](C2_InLoop => <>RunJustInvoked)

C2_Witness ==
    /\ mode = "loop"
    /\ RunJustInvoked
    /\ runCalls = 2
    /\ lastLog = "unexpected"
    /\ lastSleep = 6 * SecondsPerHour

\* C3: without POSTING_INTERVAL main() calls run() exactly once, never
\* sleeps, and ends with exit status 0 whether run() returned True, returned
\* False or raised.
C3_SingleRun ==
    /\ [](mode = "single" =>
            /\ sleeps = 0
            /\ runCalls <= 1
            /\ pc \notin {"sleep", "crashed"})
    /\ [](pc = "exited" =>
            /\ mode = "single"
            /\ runCalls = 1
            /\ sleeps = 0
            /\ exitCode = 0)
    /\ [](mode = "single" => <>(pc = "exited"))

C3_Witness ==
    /\ pc = "exited"
    /\ exitCode = 0
    /\ lastLog = "unexpected"
    /\ env["POSTING_INTERVAL"] = Unset

\* The required variables that are unset or empty.
C4_Missing == {k \in RequiredSet : ~env[k].set \/ env[k].val = <<>>}

\* C4: when a required variable is unset or empty, construction fails with an
\* error that names exactly the missing variables, before the profile
\* directory is made, the browser launched or the HTTP session created.
C4_MissingKeysNamed ==
    C4_Missing # {} =>
        /\ pc \in {"validate", "crashed"}
        /\ tempDirs = 0
        /\ driver = "none"
        /\ session = "none"
        /\ runCalls = 0
        /\ pc = "crashed" =>
              /\ Range(errMsg) = C4_Missing
              /\ Len(errMsg) = Cardinality(C4_Missing)
              /\ exitCode = 1

C4_Witness ==
    /\ pc = "crashed"
    /\ env["LOGIN_URL"] = Unset
    /\ env["PASSWORD"] = Str(<<>>)
    /\ Len(errMsg) = 2

\* C5: login() returns True only if all four waits succeeded; when a wait
\* times out login() returns False, raises nothing and leaves the session's
\* cookie jar as it was when login() was entered.
C5_LoginFailureKeepsJar ==
    /\ loginRes = "True" => LoginWaits \subseteq loginDone /\ loginFailedAt = "none"
    /\ loginFailedAt \in LoginWaits =>
          /\ loginRes = "False"
          /\ pc # "run_raised"
          /\ sessionCookies = jarBefore

C5_Witness ==
    /\ pc = "run_after_login"
    /\ loginFailedAt = "wait_marker"
    /\ loginRes = "False"
    /\ jarBefore # {}
    /\ browserCookies # {}
    /\ browserCookies # jarBefore

\* The order of browser actions C6 states: navigate, click New Topic, fill
\* title, select category (open the dropdown, click the option), fill body,
\* click submit.
C6_Order ==
    <<"get", "click_new_topic", "fill_title", "open_category", "select_category",
      "fill_body", "click_submit">>

\* The place in C6_Order of the action a failed step belongs to.
C6_Place(step) ==
    IF step \in {"wait_title", "json_loads"} THEN 3
    ELSE IF step = "wait_body" THEN 6
    ELSE CHOOSE i \in 1..Len(C6_Order) : C6_Order[i] = step

C6_Typed(i) ==
    LET data == JsonLoads(content.text)
        key == IF uiLog[i][1] = "fill_title" THEN "topic" ELSE "forumPost"
    IN  uiLog[i][1] \in {"fill_title", "fill_body"} =>
            /\ HasKey(data, key)
            /\ uiLog[i][2] = data.obj[key]

\* C6: post_content_to_platform acts on the browser in the order navigate,
\* click New Topic, fill title, select category, fill body, click submit; the
\* title typed is the content's topic and the body typed is its forumPost;
\* the submit click comes at most once and last; the call returns True only
\* after all of them, and a step that fails ends the call with False and
\* nothing after it is done.
C6_PostOrder ==
    /\ Len(uiLog) <= Len(C6_Order)
    /\ \A i \in 1..Len(uiLog) : uiLog[i][1] = C6_Order[i] /\ C6_Typed(i)
    /\ postRes = "True" => Len(uiLog) = Len(C6_Order) /\ postFailedAt = "none"
    /\ postFailedAt # "none" =>
          /\ postRes = "False"
          /\ pc \in {"run_after_post", "run_return"}
          /\ Len(uiLog) = C6_Place(postFailedAt) - 1

C6_Witness ==
    /\ pc = "run_after_post"
    /\ postRes = "True"
    /\ content = Text(<<"{", "b1", ",", "t2", "}">>)
    /\ uiLog[3] = <<"fill_title", 2>>
    /\ uiLog[6] = <<"fill_body", 1>>
    /\ uiLog[7] = <<"click_submit", 0>>

\* Content that is not valid JSON, or JSON without topic or forumPost.
C7_Malformed(c) ==
    LET data == JsonLoads(c.text)
    IN  \/ data.kind = "JSONDecodeError"
        \/ data.kind # "object"
        \/ "topic" \notin DOMAIN data.obj
        \/ "forumPost" \notin DOMAIN data.obj

\* C7: on content that is not valid JSON, or is JSON without the topic key or
\* without the forumPost key, post_content_to_platform returns False and
\* raises nothing.
C7_MalformedGivesFalse ==
    ("post_content_to_platform" \in Range(calls) /\ C7_Malformed(content)) =>
        /\ postRes # "True"
        /\ pc # "run_raised"
        /\ pc \in {"run_after_post", "run_return"} => postRes = "False"
        /\ "click_submit" \notin {uiLog[i][1] : i \in 1..Len(uiLog)}

C7_Witness ==
    /\ pc = "run_after_post"
    /\ postRes = "False"
    /\ postFailedAt = "json_loads"
    /\ content = Text(<<"{", "t1", ",", "b2">>)

\* A success status.
C8_Is2xx(status) == 200 <= status /\ status <= 299

\* t is b without its leading and trailing whitespace.
C8_IsTrimOf(t, b) ==
    \E i \in 1..(Len(b) + 1), j \in 0..Len(b) :
        /\ t = SubSeq(b, i, j)
        /\ \A k \in 1..Len(b) : (k < i \/ k > j) => b[k] \in Whitespace
        /\ t # <<>> => t[1] \notin Whitespace /\ t[Len(t)] \notin Whitespace

\* b is empty or all whitespace.
C8_Blank(b) == \A k \in 1..Len(b) : b[k] \in Whitespace

\* fetch_content has sent exactly one GET when it is over.
C8_OneGet == pc # "fetch" => gets = 1

\* A requests.RequestException raised by the GET gives an absent result.
C8_NetworkErrorAbsent ==
    (pc # "fetch" /\ resp.kind = "RequestException") =>
        pc = "run_after_fetch" /\ content = None

\* C8 as stated: fetch_content returns the trimmed text only for a 2xx status
\* with a body that is not all whitespace, and absent for every other status,
\* for a blank body and for a network error; one GET per call.
C8_Original ==
    /\ C8_OneGet
    /\ C8_NetworkErrorAbsent
    /\ (pc # "fetch" /\ resp.kind = "response") =>
          /\ pc = "run_after_fetch"
          /\ IF C8_Is2xx(resp.status) /\ ~C8_Blank(resp.body)
             THEN content.present /\ C8_IsTrimOf(content.text, resp.body)
             ELSE content = None

\* A client or server error status.
C8_IsError(status) == 400 <= status /\ status <= 599

\* C8 amended: the statuses treated as failure are 4xx and 5xx (those
\* raise_for_status raises on); any other status with a body that is not all
\* whitespace gives the trimmed text; absent for 4xx/5xx, for a blank body
\* and for a network error; one GET per call.
C8_Amended ==
    /\ C8_OneGet
    /\ C8_NetworkErrorAbsent
    /\ (pc # "fetch" /\ resp.kind = "response") =>
          /\ pc = "run_after_fetch"
          /\ IF ~C8_IsError(resp.status) /\ ~C8_Blank(resp.body)
             THEN content.present /\ C8_IsTrimOf(content.text, resp.body)
             ELSE content = None

C8_Witness ==
    /\ pc = "run_after_fetch"
    /\ resp.kind = "response"
    /\ resp.status = 404
    /\ resp.body = <<" ", "{", "t1", ",", "b2", "}">>
    /\ content = None

\* C9: when the session's cookie jar is empty as post_content_to_platform is
\* called, the call returns False at once, raises nothing and does nothing to
\* the browser.
C9_NoCookiesNoPost ==
    ("post_content_to_platform" \in Range(calls) /\ pc # "post_check"
        /\ sessionCookies = {}) =>
        /\ pc \in {"run_after_post", "run_return"}
        /\ postRes = "False"
        /\ postFailedAt = "none"
        /\ uiLog = <<>>

C9_Witness ==
    /\ pc = "run_after_post"
    /\ sessionCookies = {}
    /\ postRes = "False"
    /\ ~Falsy(content)

\* C10 as stated: every call of run() runs on a profile directory and a
\* browser session no earlier call has used, with nothing of an earlier call
\* left in them.
C10_Original ==
    /\ profileRuns <= 1
    /\ RunJustInvoked => browserCookies = {} /\ sessionCookies = {}

\* C10 amended: the profile directory is made once per ContentPoster, that is
\* once per process, before the browser is launched on it; every call of
\* run() uses that one directory, browser and HTTP session, so only the first
\* call of a process finds them fresh (in single-run mode: the only call).
C10_Amended ==
    /\ tempDirs <= 1
    /\ driver # "none" => tempDirs = 1 /\ driverProfile = temp_dir /\ temp_dir = 1
    /\ runCalls > 0 => driver # "none" /\ session = "created"
    /\ profileRuns = runCalls
    /\ mode = "single" => profileRuns <= 1
    /\ (RunJustInvoked /\ runCalls = 1) => browserCookies = {} /\ sessionCookies = {}

C10_Witness ==
    /\ RunJustInvoked
    /\ runCalls = 2
    /\ profileRuns = 2
    /\ browserCookies # {}
    /\ sessionCookies # {}

====
